---- MODULE Spec2Model ----
(***************************************************************************)
(* A model of common/util.py: the tensor helpers of the semi-supervised    *)
(* text classifier (compute_bow, check_dispersion,                         *)
(* compute_background_log_frequency, split_instances,                      *)
(* log_standard_categorical, schedule, interpolate).                       *)
(*                                                                         *)
(* Every helper is a function called by an external training loop, so each *)
(* helper has its own specification: Init draws the arguments of one call  *)
(* from bounded sets and the actions are the steps of the function body.   *)
(* The variables of the other helpers stay at their idle values.           *)
(*                                                                         *)
(* Conventions.  Tensors and arrays are sequences (1-based here, 0-based   *)
(* in Python: element k of the source is element k+1 of the model).        *)
(* Python's None is the empty sequence None and a supplied optional        *)
(* argument x is Some(x).  Floating-point numbers are fixed-point integers *)
(* with Scale units per 1.0, except in interpolate, where they are exact   *)
(* rationals <<numerator, denominator>>.                                   *)
(***************************************************************************)
EXTENDS Integers, Sequences, FiniteSets, TLC

VARIABLES
    \* compute_bow
    tokens, vocab_size, stopword_indicator, mask, bow_vectors, bow_pc, bow_ret,
    \* check_dispersion
    vecs, num_sam, i, idx1, idx2, cos_sim, disp_pc, disp_ret, vecs_at_call,
    \* compute_background_log_frequency
    vocab, precomputed_word_counts, log_term_frequency, bg_i, bg_pc,
    \* split_instances
    split_tokens, is_labeled, targets, label, labeled_instances, unlabeled_instances,
    split_pc,
    \* log_standard_categorical
    p, prior, cross_entropy, lsc_pc,
    \* schedule, called for two batch numbers batch_a <= batch_b
    batch_a, batch_b, anneal_type, weight_a, weight_b, sched_pc,
    \* interpolate
    start, end, steps, interpolation, interp_dim, interp_ret, interp_pc

varsBow == <<tokens, vocab_size, stopword_indicator, mask, bow_vectors, bow_pc, bow_ret>>
varsDisp == <<vecs, num_sam, i, idx1, idx2, cos_sim, disp_pc, disp_ret, vecs_at_call>>
varsBg == <<vocab, precomputed_word_counts, log_term_frequency, bg_i, bg_pc>>
varsSplit == <<split_tokens, is_labeled, targets, label, labeled_instances,
               unlabeled_instances, split_pc>>
varsLsc == <<p, prior, cross_entropy, lsc_pc>>
varsSched == <<batch_a, batch_b, anneal_type, weight_a, weight_b, sched_pc>>
varsInterp == <<start, end, steps, interpolation, interp_dim, interp_ret, interp_pc>>
vars == <<varsBow, varsDisp, varsBg, varsSplit, varsLsc, varsSched, varsInterp>>

----------------------------------------------------------------------------
(* Shared helpers *)

None == <<>>
Some(x) == <<x>>

\* fixed-point resolution of the model's floats: Scale units per 1.0
Scale == 10 * 10 * 10

RECURSIVE SumSeq(_)
SumSeq(s) == IF s = <<>> THEN 0 ELSE Head(s) + SumSeq(Tail(s))

Min(a, b) == IF a <= b THEN a ELSE b

----------------------------------------------------------------------------
(* compute_bow *)

MaxDocs == 2
MaxSeqLen == 2
MaxVocab == 2

\* allennlp.nn.util.get_text_field_mask on a 2-dimensional tensor of token
\* indices: (token_tensor != 0), padding being index 0
get_text_field_mask(toks) ==
    [d \in 1..Len(toks) |-> [j \in 1..Len(toks[d]) |-> IF toks[d][j] # 0 THEN 1 ELSE 0]]

\* torch.masked_select(t, m): the elements of t whose mask entry is non-zero, in order
RECURSIVE masked_select(_, _)
masked_select(t, m) ==
    IF t = <<>> THEN <<>>
    ELSE (IF Head(m) # 0 THEN <<Head(t)>> ELSE <<>>) \o masked_select(Tail(t), Tail(m))

MaxOfSeq(s) == IF s = <<>> THEN -1 ELSE CHOOSE x \in {s[k] : k \in 1..Len(s)} :
                                          \A y \in {s[k] : k \in 1..Len(s)} : y <= x

\* torch.bincount(document, minlength): entry v+1 counts the occurrences of
\* index v; the length is max(minlength, max(document) + 1)
bincount(document, minlength) ==
    LET n == IF MaxOfSeq(document) + 1 > minlength THEN MaxOfSeq(document) + 1 ELSE minlength
    IN [v \in 1..n |-> Cardinality({k \in 1..Len(document) : document[k] = v - 1})]

\* 1 - stopword_indicator.to(vec).byte(): arithmetic on unsigned bytes
ByteComplement(ind) == [v \in 1..Len(ind) |-> (1 - ind[v]) % 256]

\* the document's row of the result: lines 27-31
BowVectorUnmasked(document, doc_mask, vsize, stop) ==
    bincount(document, vsize)

BowVector(document, doc_mask, vsize, stop) ==
    LET doc == masked_select(document, doc_mask)
        vec == bincount(doc, vsize)
    IN IF stop # None THEN masked_select(vec, ByteComplement(stop[1])) ELSE vec

TokenTensors(D, L, V) == [1..D -> [1..L -> 0..(V - 1)]]

BowInputs ==
    /\ vocab_size \in 1..MaxVocab
    /\ \E D \in 1..MaxDocs, L \in 0..MaxSeqLen : tokens \in TokenTensors(D, L, vocab_size)
    /\ stopword_indicator \in {None} \cup {Some(s) : s \in [1..vocab_size -> {0, 1}]}
    /\ mask = None
    /\ bow_vectors = <<>>
    /\ bow_ret = None
    /\ bow_pc = "mask"

BowIdle ==
    /\ tokens = <<>> /\ vocab_size = 0 /\ stopword_indicator = None /\ mask = None
    /\ bow_vectors = <<>> /\ bow_ret = None /\ bow_pc = "idle"

\* lines 24-25
BowMask ==
    /\ bow_pc = "mask"
    /\ mask' = get_text_field_mask(tokens)
    /\ bow_vectors' = <<>>
    /\ bow_pc' = "for"
    /\ UNCHANGED <<tokens, vocab_size, stopword_indicator, bow_ret>>

\* one iteration of the loop of lines 26-32
BowIter ==
    /\ bow_pc = "for"
    /\ Len(bow_vectors) < Len(tokens)
    /\ LET d == Len(bow_vectors) + 1
       IN bow_vectors' = Append(bow_vectors,
                                BowVector(tokens[d], mask[d], vocab_size, stopword_indicator))
    /\ UNCHANGED <<tokens, vocab_size, stopword_indicator, mask, bow_pc, bow_ret>>

\* line 33: torch.cat(bow_vectors, 0) stacks the 1 x n rows
BowReturn ==
    /\ bow_pc = "for"
    /\ Len(bow_vectors) = Len(tokens)
    /\ bow_ret' = Some(bow_vectors)
    /\ bow_pc' = "returned"
    /\ UNCHANGED <<tokens, vocab_size, stopword_indicator, mask, bow_vectors>>

----------------------------------------------------------------------------
(* check_dispersion *)

MaxBatchSz == 3
MaxLatDim == 1
MaxNumSam == 2

\* the element values the call's vecs are drawn from: 0.0 and 1.0
VecValues == {0, Scale}

\* numpy's cos on one element, as its Taylor polynomial up to x^6 in fixed point
cos(x) ==
    LET x2 == (x * x) \div Scale
        x4 == (x2 * x2) \div Scale
        x6 == (x4 * x2) \div Scale
    IN Scale - (x2 \div 2) + (x4 \div 24) - (x6 \div 720)

\* np.cos(x1, x2): the second positional parameter of a numpy ufunc is `out`,
\* so the cosine of x1 is stored into the array x2 and that array is returned
np_cos(x1) == [k \in 1..Len(x1) |-> cos(x1[k])]

\* np.random.randint(low, high): an integer of [low, high)
randint(low, high) == low..(high - 1)

\* vecs.size(1) after vecs.unsqueeze(0): the batch size
BatchSz == Len(vecs)

\* cos_sim is the Python int 0 (IntZero) until the first iteration makes it an
\* array.  cos_sim += array: 0 + array first, elementwise afterwards
IntZero == [scalar |-> TRUE, val |-> <<0>>]
Array(a) == [scalar |-> FALSE, val |-> a]
AddCos(acc, arr) ==
    Array([k \in 1..Len(arr) |-> (IF acc.scalar THEN acc.val[1] ELSE acc.val[k]) + arr[k]])

DispInputs ==
    /\ \E B \in 1..MaxBatchSz, L \in 1..MaxLatDim : vecs \in [1..B -> [1..L -> VecValues]]
    /\ num_sam \in 0..MaxNumSam
    /\ vecs_at_call = vecs
    /\ i = 0 /\ idx1 = None /\ idx2 = None /\ cos_sim = IntZero /\ disp_ret = None
    /\ disp_pc = "enter"

DispIdle ==
    /\ vecs = <<>> /\ num_sam = 0 /\ i = 0 /\ idx1 = None /\ idx2 = None
    /\ cos_sim = IntZero /\ disp_ret = None /\ vecs_at_call = <<>> /\ disp_pc = "idle"

\* lines 42-46: at most two rows return torch.zeros(1)
DispEnter ==
    /\ disp_pc = "enter"
    /\ IF BatchSz <= 2
       THEN disp_ret' = Some(<<0>>) /\ disp_pc' = "returned" /\ UNCHANGED cos_sim
       ELSE cos_sim' = IntZero /\ disp_pc' = "for" /\ UNCHANGED disp_ret
    /\ UNCHANGED <<vecs, num_sam, i, idx1, idx2, vecs_at_call>>

\* lines 47-48: the next iteration of range(num_sam) draws idx1
DispDrawIdx1 ==
    /\ disp_pc = "for"
    /\ i < num_sam
    /\ \E r \in randint(0, BatchSz - 1) : idx1' = Some(r)
    /\ disp_pc' = "while"
    /\ UNCHANGED <<vecs, num_sam, i, idx2, cos_sim, disp_ret, vecs_at_call>>

\* the rejection loop left after any draw
LeavesLoopAlways(a, b) == TRUE

\* lines 51-52: the test that ends the rejection loop
LeavesLoop(a, b) == a # b

\* lines 49-52: draw idx2 and leave the loop when it differs from idx1
DispDrawIdx2 ==
    /\ disp_pc = "while"
    /\ \E r \in randint(0, BatchSz - 1) :
          /\ idx2' = Some(r)
          /\ disp_pc' = IF LeavesLoop(idx1[1], r) THEN "cos" ELSE "while"
    /\ UNCHANGED <<vecs, num_sam, i, idx1, cos_sim, disp_ret, vecs_at_call>>

\* line 53: vecs[0][idx2].detach().cpu().numpy() shares its memory with the
\* CPU tensor vecs, and np.cos writes its result into it
DispCos ==
    /\ disp_pc = "cos"
    /\ LET out == np_cos(vecs[idx1[1] + 1])
       IN /\ vecs' = [vecs EXCEPT ![idx2[1] + 1] = out]
          /\ cos_sim' = AddCos(cos_sim, out)
    /\ i' = i + 1
    /\ disp_pc' = "for"
    /\ UNCHANGED <<num_sam, idx1, idx2, disp_ret, vecs_at_call>>

\* line 54: cos_sim / num_sam; with num_sam = 0 this is 0 / 0, a ZeroDivisionError
DispReturn ==
    /\ disp_pc = "for"
    /\ i >= num_sam
    /\ IF num_sam = 0
       THEN disp_pc' = "raised" /\ UNCHANGED disp_ret
       ELSE /\ disp_ret' = Some([k \in 1..Len(cos_sim.val) |-> cos_sim.val[k] \div num_sam])
            /\ disp_pc' = "returned"
    /\ UNCHANGED <<vecs, num_sam, i, idx1, idx2, cos_sim, vecs_at_call>>

----------------------------------------------------------------------------
(* compute_background_log_frequency *)

MaxVocabSize == 2

SpecialTokens == {"@@UNKNOWN@@", "@@PADDING@@", "@@start@@", "@@end@@"}
VocabTokens == SpecialTokens \cup {"the", "cat"}
\* the keys and the counts the JSON file of word counts may hold
CountKeys == {"@@UNKNOWN@@", "the", "cat"}
CountValues == {3, 7}

\* values of log_term_frequency before the logarithm: the constant 1e-12, a
\* word count, or whatever the uninitialised memory of torch.FloatTensor(n) holds
Tiny == [kind |-> "1e-12", n |-> 0]
Count(c) == [kind |-> "count", n |-> c]
Uninitialised(g) == [kind |-> "uninitialised", n |-> g]
GarbageValues == {Uninitialised(g) : g \in {0, 1}}

\* torch.log on one element
torch_log(v) == <<"log", v>>

\* vocab.get_vocab_size(namespace) and vocab.get_token_from_index(k, namespace)
get_vocab_size == Len(vocab)
get_token_from_index(k) == vocab[k + 1]

\* lines 70-73 with the first test cut down to the special tokens
BgEntryNoMissing(token, counts, old) ==
    IF token \in SpecialTokens THEN Tiny
    ELSE IF token \in DOMAIN counts THEN Count(counts[token])
    ELSE old

\* lines 70-73: the value of entry i after the if / elif
BgEntry(token, counts, old) ==
    IF token \in SpecialTokens \/ token \notin DOMAIN counts THEN Tiny
    ELSE IF token \in DOMAIN counts THEN Count(counts[token])
    ELSE old

InjectiveSeqs(S, n) == {q \in [1..n -> S] : \A a, b \in 1..n : q[a] = q[b] => a = b}

BgInputs ==
    /\ \E n \in 0..MaxVocabSize : vocab \in InjectiveSeqs(VocabTokens, n)
    /\ \E K \in SUBSET CountKeys : precomputed_word_counts \in [K -> CountValues]
    /\ log_term_frequency = <<>>
    /\ bg_i = 0
    /\ bg_pc = "alloc"

BgIdle ==
    /\ vocab = <<>> /\ precomputed_word_counts = <<>> /\ log_term_frequency = <<>>
    /\ bg_i = 0 /\ bg_pc = "idle"

\* lines 66-67: torch.FloatTensor(n) allocates without initialising
BgAlloc ==
    /\ bg_pc = "alloc"
    /\ log_term_frequency' \in [1..get_vocab_size -> GarbageValues]
    /\ bg_i' = 0
    /\ bg_pc' = "for"
    /\ UNCHANGED <<vocab, precomputed_word_counts>>

\* lines 68-73: one iteration of the loop
BgIter ==
    /\ bg_pc = "for"
    /\ bg_i < get_vocab_size
    /\ log_term_frequency' =
           [log_term_frequency EXCEPT ![bg_i + 1] =
               BgEntry(get_token_from_index(bg_i), precomputed_word_counts, @)]
    /\ bg_i' = bg_i + 1
    /\ UNCHANGED <<vocab, precomputed_word_counts, bg_pc>>

\* the loop is over; the tensor holds the values the logarithm is taken of
BgLoopEnd ==
    /\ bg_pc = "for"
    /\ bg_i >= get_vocab_size
    /\ bg_pc' = "log"
    /\ UNCHANGED <<vocab, precomputed_word_counts, log_term_frequency, bg_i>>

\* lines 74-75
BgReturn ==
    /\ bg_pc = "log"
    /\ log_term_frequency' =
           [k \in 1..Len(log_term_frequency) |-> torch_log(log_term_frequency[k])]
    /\ bg_pc' = "returned"
    /\ UNCHANGED <<vocab, precomputed_word_counts, bg_i>>

----------------------------------------------------------------------------
(* split_instances *)

MaxBatch == 3
MaxSplitSeqLen == 1

\* a tensor is [ndim |-> number of dimensions, val |-> scalar or nested sequence]
Tensor0(x) == [ndim |-> 0, val |-> x]
Tensor1(v) == [ndim |-> 1, val |-> v]
Tensor2(m) == [ndim |-> 2, val |-> m]

RECURSIVE NonzeroFrom(_, _)
NonzeroFrom(v, k) ==
    IF k > Len(v) THEN <<>>
    ELSE (IF v[k] # 0 THEN <<<<k - 1>>>> ELSE <<>>) \o NonzeroFrom(v, k + 1)

\* t.nonzero() of a 1-dimensional tensor: an n x 1 matrix of the (0-based)
\* indices of the non-zero entries, ascending
nonzero(v) == Tensor2(NonzeroFrom(v, 1))

\* t.squeeze() of an n x 1 matrix drops every dimension of size 1: a scalar
\* for n = 1, a vector of length n otherwise
squeeze(t) ==
    IF Len(t.val) = 1 THEN Tensor0(t.val[1][1])
    ELSE Tensor1([k \in 1..Len(t.val) |-> t.val[k][1]])

nelement(t) == IF t.ndim = 0 THEN 1 ELSE Len(t.val)

\* m[indices, :] for a matrix m
IndexRows(m, indices) ==
    IF indices.ndim = 0 THEN Tensor1(m[indices.val + 1])
    ELSE Tensor2([k \in 1..Len(indices.val) |-> m[indices.val[k] + 1]])

\* v[indices] for a vector v
IndexVector(v, indices) ==
    IF indices.ndim = 0 THEN Tensor0(v[indices.val + 1])
    ELSE Tensor1([k \in 1..Len(indices.val) |-> v[indices.val[k] + 1]])

unsqueeze0(t) == [ndim |-> t.ndim + 1, val |-> <<t.val>>]

\* line 106 without the comparison with 0
EqualsZeroDropped(v) == v

\* is_labeled.int() == 0, elementwise
EqualsZero(v) == [k \in 1..Len(v) |-> IF v[k] = 0 THEN 1 ELSE 0]

EmptyDict == <<>>

\* lines 91/100/108/113 without the unsqueeze of a single row
RowsOfNoUnsqueeze(m, indices) == IndexRows(m, indices)

\* lines 91,93-94 (and 100-102, 108-110, 113-115): the rows and their normalisation
RowsOf(m, indices) ==
    LET rows == IndexRows(m, indices)
    IN IF rows.ndim = 1 THEN unsqueeze0(rows) ELSE rows

\* lines 92,95-96
LabelsOf(v, indices) ==
    LET labels == IndexVector(v, indices)
    IN IF labels.ndim = 0 THEN unsqueeze0(labels) ELSE labels

TargetsEntry(indices) ==
    IF targets # None
    THEN "targets" :> [tokens |-> RowsOf(targets[1], indices)]
    ELSE EmptyDict

SplitInputs ==
    /\ \E B \in 1..MaxBatch, L \in 1..MaxSplitSeqLen :
          /\ split_tokens \in [1..B -> [1..L -> {1, 2}]]
          /\ is_labeled \in [1..B -> {0, 1}]
          /\ label \in [1..B -> {0, 1}]
    \* targets is omitted, or a batch of the same shape (here: the tokens plus 10)
    /\ targets \in {None, Some([b \in 1..Len(split_tokens) |->
                                [j \in 1..Len(split_tokens[b]) |-> split_tokens[b][j] + 10]])}
    /\ labeled_instances = EmptyDict
    /\ unlabeled_instances = EmptyDict
    /\ split_pc = "labeled"

SplitIdle ==
    /\ split_tokens = <<>> /\ is_labeled = <<>> /\ targets = None /\ label = <<>>
    /\ labeled_instances = EmptyDict /\ unlabeled_instances = EmptyDict
    /\ split_pc = "idle"

\* lines 85-103
SplitLabeled ==
    /\ split_pc = "labeled"
    /\ LET labeled_indices == squeeze(nonzero(is_labeled))
       IN labeled_instances' =
              IF nelement(labeled_indices) > 0
              THEN ("tokens" :> [tokens |-> RowsOf(split_tokens, labeled_indices)])
                   @@ ("label" :> LabelsOf(label, labeled_indices))
                   @@ TargetsEntry(labeled_indices)
              ELSE EmptyDict
    /\ unlabeled_instances' = EmptyDict
    /\ split_pc' = "unlabeled"
    /\ UNCHANGED <<split_tokens, is_labeled, targets, label>>

\* lines 106-118
SplitUnlabeled ==
    /\ split_pc = "unlabeled"
    /\ LET unlabeled_indices == squeeze(nonzero(EqualsZero(is_labeled)))
       IN unlabeled_instances' =
              IF nelement(unlabeled_indices) > 0
              THEN ("tokens" :> [tokens |-> RowsOf(split_tokens, unlabeled_indices)])
                   @@ TargetsEntry(unlabeled_indices)
              ELSE EmptyDict
    /\ split_pc' = "returned"
    /\ UNCHANGED <<split_tokens, is_labeled, targets, label, labeled_instances>>

----------------------------------------------------------------------------
(* log_standard_categorical *)

MaxCatBatch == 2
MaxClasses == 4

\* sum over k >= n of z^(2k+1) / (2k+1), cut after the term of z^15; zpow = z^(2n+1)
RECURSIVE AtanhSeries(_, _, _)
AtanhSeries(z, zpow, n) ==
    IF n > 7 THEN 0
    ELSE (zpow \div (2 * n + 1))
         + AtanhSeries(z, (((zpow * z) \div Scale) * z) \div Scale, n + 1)

\* the natural logarithm in fixed point: ln x = 2 atanh((x - 1) / (x + 1))
Ln(x) ==
    LET z == ((x - Scale) * Scale) \div (x + Scale)
    IN 2 * AtanhSeries(z, z, 0)

\* the smoothing term 1e-8, below the resolution of the fixed point
Smoothing == Scale \div (10 ^ 8)

\* softmax(torch.ones_like(row)): every entry is exp(1 - 1) / (K * exp(1 - 1))
softmax_of_ones(row) == [k \in 1..Len(row) |-> (Scale * Scale) \div (Len(row) * Scale)]

\* line 134 for one row: torch.sum(p * torch.log(prior + 1e-8), dim=-1)
SumPLogPrior(row, prior_row) ==
    SumSeq([k \in 1..Len(row) |-> row[k] * Ln(prior_row[k] + Smoothing)])

OneHots(K) == {[k \in 1..K |-> IF k = c THEN 1 ELSE 0] : c \in 1..K}

LscInputs ==
    /\ \E N \in 1..MaxCatBatch, K \in 1..MaxClasses : p \in [1..N -> OneHots(K)]
    /\ prior = None
    /\ cross_entropy = None
    /\ lsc_pc = "prior"

LscIdle == p = <<>> /\ prior = None /\ cross_entropy = None /\ lsc_pc = "idle"

\* lines 132-133
LscPrior ==
    /\ lsc_pc = "prior"
    /\ prior' = Some([r \in 1..Len(p) |-> softmax_of_ones(p[r])])
    /\ lsc_pc' = "sum"
    /\ UNCHANGED <<p, cross_entropy>>

\* lines 134-135
LscReturn ==
    /\ lsc_pc = "sum"
    /\ cross_entropy' = Some([r \in 1..Len(p) |-> SumPLogPrior(p[r], prior[1][r])])
    /\ lsc_pc' = "returned"
    /\ UNCHANGED <<p, prior>>

----------------------------------------------------------------------------
(* schedule *)

\* batch numbers are the multiples of 100 up to 100 * MaxBatchHundreds
MaxBatchHundreds == 50
LinearRamp == 2500
SigmoidMidpoint == 2500

AnnealTypes == {"linear", "sigmoid", "constant", "reverse_sigmoid", "anything else"}

\* e^(q/4) in fixed point for q >= 0, by repeated multiplication with e^(1/4) = 1.284
RECURSIVE ExpQuarters(_)
ExpQuarters(q) == IF q = 0 THEN Scale ELSE (ExpQuarters(q - 1) * 1284) \div Scale

\* np.exp(q/4) for an integer q
np_exp(q) == IF q >= 0 THEN ExpQuarters(q) ELSE (Scale * Scale) \div ExpQuarters(-q)

\* 0.0025 * (batch_num - 2500), in quarters: (batch_num - 2500) / 100
SigmoidArg(batch_num) == (batch_num - SigmoidMidpoint) \div 100

\* schedule with the sign of the sigmoid's exponent flipped
schedule_flipped(batch_num, atype) ==
    IF atype = "linear" THEN Min(Scale, (batch_num * Scale) \div LinearRamp)
    ELSE IF atype = "sigmoid"
         THEN (Scale * Scale) \div (Scale + np_exp(SigmoidArg(batch_num)))
    ELSE IF atype = "constant" THEN Scale
    ELSE IF atype = "reverse_sigmoid"
         THEN (Scale * Scale) \div (Scale + np_exp(SigmoidArg(batch_num)))
    ELSE Scale \div 100

\* lines 141-150
schedule(batch_num, atype) ==
    IF atype = "linear" THEN Min(Scale, (batch_num * Scale) \div LinearRamp)
    ELSE IF atype = "sigmoid"
         THEN (Scale * Scale) \div (Scale + np_exp(-SigmoidArg(batch_num)))
    ELSE IF atype = "constant" THEN Scale
    ELSE IF atype = "reverse_sigmoid"
         THEN (Scale * Scale) \div (Scale + np_exp(SigmoidArg(batch_num)))
    ELSE Scale \div 100

BatchNums == {100 * k : k \in 0..MaxBatchHundreds}

SchedInputs ==
    /\ batch_a \in BatchNums
    /\ batch_b \in {b \in BatchNums : batch_a <= b}
    /\ anneal_type \in AnnealTypes
    /\ weight_a = None /\ weight_b = None
    /\ sched_pc = "call_a"

SchedIdle ==
    /\ batch_a = 0 /\ batch_b = 0 /\ anneal_type = "" /\ weight_a = None /\ weight_b = None
    /\ sched_pc = "idle"

\* the training loop's call at step batch_a
SchedCallA ==
    /\ sched_pc = "call_a"
    /\ weight_a' = Some(schedule(batch_a, anneal_type))
    /\ sched_pc' = "call_b"
    /\ UNCHANGED <<batch_a, batch_b, anneal_type, weight_b>>

\* the training loop's call at the later step batch_b
SchedCallB ==
    /\ sched_pc = "call_b"
    /\ weight_b' = Some(schedule(batch_b, anneal_type))
    /\ sched_pc' = "returned"
    /\ UNCHANGED <<batch_a, batch_b, anneal_type, weight_a>>

----------------------------------------------------------------------------
(* interpolate *)

MaxDim == 2
MaxSteps == 2

InterpValues == {-1, 0, 2}

\* exact rationals <<numerator, denominator>> with a positive denominator
Rat(n, d) == <<n, d>>
RatEq(a, b) == a[1] * b[2] = b[1] * a[2]
RatSub(a, b) == <<a[1] * b[2] - b[1] * a[2], a[2] * b[2]>>

\* np.linspace(s, e, num) for num >= 2: s + k * ((e - s) / (num - 1)) for
\* k = 0..num-1, the last sample then set to e
linspace(s, e, num) ==
    LET div == num - 1
    IN [k \in 1..num |-> IF k = num THEN Rat(e, 1)
                         ELSE Rat(s * div + (k - 1) * (e - s), div)]

Transpose(m, rows, cols) == [c \in 1..cols |-> [r \in 1..rows |-> m[r][c]]]

\* line 159 without the transposition
InterpResultUntransposed(m, rows, cols) == m

\* line 159: interpolation.T
InterpResult(m, rows, cols) == Transpose(m, rows, cols)

InterpInputs ==
    /\ \E n \in 1..MaxDim : start \in [1..n -> InterpValues] /\ end \in [1..n -> InterpValues]
    /\ steps \in 0..MaxSteps
    /\ interpolation = <<>>
    /\ interp_dim = 0
    /\ interp_ret = None
    /\ interp_pc = "zeros"

InterpIdle ==
    /\ start = <<>> /\ end = <<>> /\ steps = 0 /\ interpolation = <<>> /\ interp_dim = 0
    /\ interp_ret = None /\ interp_pc = "idle"

\* line 154: np.zeros((start.shape[0], steps + 2))
InterpZeros ==
    /\ interp_pc = "zeros"
    /\ interpolation' = [d \in 1..Len(start) |-> [k \in 1..(steps + 2) |-> Rat(0, 1)]]
    /\ interp_dim' = 0
    /\ interp_pc' = "for"
    /\ UNCHANGED <<start, end, steps, interp_ret>>

\* lines 156-157: one iteration over enumerate(zip(start, end))
InterpIter ==
    /\ interp_pc = "for"
    /\ interp_dim < Min(Len(start), Len(end))
    /\ interpolation' = [interpolation EXCEPT ![interp_dim + 1] =
                             linspace(start[interp_dim + 1], end[interp_dim + 1], steps + 2)]
    /\ interp_dim' = interp_dim + 1
    /\ UNCHANGED <<start, end, steps, interp_ret, interp_pc>>

\* line 159
InterpReturn ==
    /\ interp_pc = "for"
    /\ interp_dim >= Min(Len(start), Len(end))
    /\ interp_ret' = Some(InterpResult(interpolation, Len(start), steps + 2))
    /\ interp_pc' = "returned"
    /\ UNCHANGED <<start, end, steps, interpolation, interp_dim>>

----------------------------------------------------------------------------
(* Specifications *)

\* one helper is called; the variables of the others are idle and stay so
OthersBowIdle == DispIdle /\ BgIdle /\ SplitIdle /\ LscIdle /\ SchedIdle /\ InterpIdle
othersBow == <<varsDisp, varsBg, varsSplit, varsLsc, varsSched, varsInterp>>
OthersDispIdle == BowIdle /\ BgIdle /\ SplitIdle /\ LscIdle /\ SchedIdle /\ InterpIdle
othersDisp == <<varsBow, varsBg, varsSplit, varsLsc, varsSched, varsInterp>>
OthersBgIdle == BowIdle /\ DispIdle /\ SplitIdle /\ LscIdle /\ SchedIdle /\ InterpIdle
othersBg == <<varsBow, varsDisp, varsSplit, varsLsc, varsSched, varsInterp>>
OthersSplitIdle == BowIdle /\ DispIdle /\ BgIdle /\ LscIdle /\ SchedIdle /\ InterpIdle
othersSplit == <<varsBow, varsDisp, varsBg, varsLsc, varsSched, varsInterp>>
OthersLscIdle == BowIdle /\ DispIdle /\ BgIdle /\ SplitIdle /\ SchedIdle /\ InterpIdle
othersLsc == <<varsBow, varsDisp, varsBg, varsSplit, varsSched, varsInterp>>
OthersSchedIdle == BowIdle /\ DispIdle /\ BgIdle /\ SplitIdle /\ LscIdle /\ InterpIdle
othersSched == <<varsBow, varsDisp, varsBg, varsSplit, varsLsc, varsInterp>>
OthersInterpIdle == BowIdle /\ DispIdle /\ BgIdle /\ SplitIdle /\ LscIdle /\ SchedIdle
othersInterp == <<varsBow, varsDisp, varsBg, varsSplit, varsLsc, varsSched>>

InitBow == BowInputs /\ OthersBowIdle
NextBow ==
    \/ BowMask /\ UNCHANGED othersBow
    \/ BowIter /\ UNCHANGED othersBow
    \/ BowReturn /\ UNCHANGED othersBow
SpecBow == InitBow /\ [][NextBow]_vars

InitDisp == DispInputs /\ OthersDispIdle
NextDisp ==
    \/ DispEnter /\ UNCHANGED othersDisp
    \/ DispDrawIdx1 /\ UNCHANGED othersDisp
    \/ DispDrawIdx2 /\ UNCHANGED othersDisp
    \/ DispCos /\ UNCHANGED othersDisp
    \/ DispReturn /\ UNCHANGED othersDisp
SpecDisp == InitDisp /\ [][NextDisp]_vars

\* a draw of idx2 that differs from idx1: a fair generator cannot avoid it forever
DispDrawDistinct == DispDrawIdx2 /\ disp_pc' = "cos" /\ UNCHANGED othersDisp
FairSpecDisp == SpecDisp /\ WF_vars(NextDisp) /\ WF_vars(DispDrawDistinct)

InitBg == BgInputs /\ OthersBgIdle
NextBg ==
    \/ BgAlloc /\ UNCHANGED othersBg
    \/ BgIter /\ UNCHANGED othersBg
    \/ BgLoopEnd /\ UNCHANGED othersBg
    \/ BgReturn /\ UNCHANGED othersBg
SpecBg == InitBg /\ [][NextBg]_vars

InitSplit == SplitInputs /\ OthersSplitIdle
NextSplit ==
    \/ SplitLabeled /\ UNCHANGED othersSplit
    \/ SplitUnlabeled /\ UNCHANGED othersSplit
SpecSplit == InitSplit /\ [][NextSplit]_vars

InitLsc == LscInputs /\ OthersLscIdle
NextLsc ==
    \/ LscPrior /\ UNCHANGED othersLsc
    \/ LscReturn /\ UNCHANGED othersLsc
SpecLsc == InitLsc /\ [][NextLsc]_vars

InitSched == SchedInputs /\ OthersSchedIdle
NextSched ==
    \/ SchedCallA /\ UNCHANGED othersSched
    \/ SchedCallB /\ UNCHANGED othersSched
SpecSched == InitSched /\ [][NextSched]_vars

InitInterp == InterpInputs /\ OthersInterpIdle
NextInterp ==
    \/ InterpZeros /\ UNCHANGED othersInterp
    \/ InterpIter /\ UNCHANGED othersInterp
    \/ InterpReturn /\ UNCHANGED othersInterp
SpecInterp == InitInterp /\ [][NextInterp]_vars

----------------------------------------------------------------------------
(* Claims about compute_bow *)

NonPadding(d) == {j \in 1..Len(tokens[d]) : tokens[d][j] # 0}

\* C2: compute_bow returns a matrix of NUM_DOCS rows and VOCAB_SIZE columns,
\* with and without a stopword_indicator.
C2_BowShape ==
    bow_pc = "returned" =>
        /\ Len(bow_ret[1]) = Len(tokens)
        /\ \A d \in 1..Len(tokens) : Len(bow_ret[1][d]) = vocab_size

\* C7: without a stopword_indicator, entry [d][v] is the number of non-padding
\* positions of document d holding token v, column 0 is 0 in every row and
\* each row sums to the number of non-padding tokens of its document.
C7_BowCounts ==
    (bow_pc = "returned" /\ stopword_indicator = None) =>
        \A d \in 1..Len(tokens) :
            /\ Len(bow_ret[1][d]) = vocab_size
            /\ \A v \in 0..(vocab_size - 1) :
                   bow_ret[1][d][v + 1] = Cardinality({j \in NonPadding(d) : tokens[d][j] = v})
            /\ bow_ret[1][d][1] = 0
            /\ SumSeq(bow_ret[1][d]) = Cardinality(NonPadding(d))

\* a call without stopwords has returned for a document that repeats a token
\* and is padded
C7_Witness ==
    /\ bow_pc = "returned" /\ stopword_indicator = None
    /\ \E d \in 1..Len(tokens) : \E j, k \in 1..Len(tokens[d]) :
           j # k /\ tokens[d][j] # 0 /\ tokens[d][j] = tokens[d][k]
    /\ \E d \in 1..Len(tokens) : \E j \in 1..Len(tokens[d]) : tokens[d][j] = 0

----------------------------------------------------------------------------
(* Claims about check_dispersion *)

\* C3: after check_dispersion returns for a CPU tensor of batch size >= 3,
\* every element of vecs equals its value before the call.
C3_VecsUnchanged ==
    (disp_pc = "returned" /\ Len(vecs_at_call) >= 3) => vecs = vecs_at_call

InRows(idx) == idx # None /\ idx[1] \in 0..(BatchSz - 1)

\* C9 (safety part): a batch of at most two rows returns zero without sampling,
\* the rejection loop is left only with two distinct valid row indices, and
\* the function raises only for num_sam = 0.
C9_Safe ==
    /\ (disp_pc = "returned" /\ BatchSz <= 2) =>
           disp_ret = Some(<<0>>) /\ idx1 = None /\ idx2 = None
    /\ disp_pc = "cos" => InRows(idx1) /\ InRows(idx2) /\ idx1 # idx2
    /\ disp_pc = "while" => InRows(idx1)
    /\ disp_pc = "raised" => num_sam = 0
    /\ (disp_pc = "returned" /\ BatchSz >= 3) => i = num_sam

\* C9: check_dispersion always terminates (under fair random draws), and
\* every iteration leaves the rejection loop with distinct valid indices.
C9_Terminates == []C9_Safe /\ <>(disp_pc \in {"returned", "raised"})

\* the last of at least two sampling iterations is done and the call has returned
C9_Witness ==
    disp_pc = "returned" /\ BatchSz >= 3 /\ num_sam >= 2 /\ i = num_sam /\ idx1 # idx2

----------------------------------------------------------------------------
(* Claims about compute_background_log_frequency *)

ExpectedPreLog(token) ==
    IF token \in SpecialTokens \/ token \notin DOMAIN precomputed_word_counts
    THEN Tiny
    ELSE Count(precomputed_word_counts[token])

\* C10: before the logarithm every index holds 1e-12 (special or uncounted
\* token) or the token's count, no entry is left uninitialised, and the
\* returned vector has one entry per vocabulary index.
C10_EveryIndexAssigned ==
    /\ bg_pc = "log" =>
           /\ Len(log_term_frequency) = Len(vocab)
           /\ \A k \in 1..Len(vocab) :
                  /\ log_term_frequency[k] = ExpectedPreLog(vocab[k])
                  /\ log_term_frequency[k].kind # "uninitialised"
    /\ bg_pc = "returned" =>
           /\ Len(log_term_frequency) = Len(vocab)
           /\ \A k \in 1..Len(vocab) :
                  log_term_frequency[k] = torch_log(ExpectedPreLog(vocab[k]))

\* the loop is over for a vocabulary holding a special token that the counts
\* file lists and a word that it does not list
C10_Witness ==
    /\ bg_pc = "log"
    /\ \E a, b \in 1..Len(vocab) :
          /\ vocab[a] \in SpecialTokens /\ vocab[a] \in DOMAIN precomputed_word_counts
          /\ vocab[b] \notin SpecialTokens /\ vocab[b] \notin DOMAIN precomputed_word_counts

----------------------------------------------------------------------------
(* Claims about split_instances *)

LabeledRows == {b \in 1..Len(is_labeled) : is_labeled[b] # 0}
UnlabeledRows == {b \in 1..Len(is_labeled) : is_labeled[b] = 0}

\* the k-th smallest element of a set of row numbers
Kth(S, k) == CHOOSE b \in S : Cardinality({c \in S : c <= b}) = k

\* t is a matrix whose rows are the rows S of m, in their original order
IsRowsOf(t, m, S) ==
    /\ t.ndim = 2
    /\ Len(t.val) = Cardinality(S)
    /\ \A k \in 1..Len(t.val) : t.val[k] = m[Kth(S, k)]

IsEntriesOf(t, v, S) ==
    /\ t.ndim = 1
    /\ Len(t.val) = Cardinality(S)
    /\ \A k \in 1..Len(t.val) : t.val[k] = v[Kth(S, k)]

NumRows(d) == IF "tokens" \in DOMAIN d THEN Len(d["tokens"].tokens.val) ELSE 0

\* C1: the batch is partitioned: the labeled result holds exactly the rows with
\* is_labeled # 0 and the unlabeled result the others, both in the original
\* order, the row counts sum to B, and 'label' holds the labeled rows' labels.
C1_Partition ==
    split_pc = "returned" =>
        /\ LabeledRows # {} =>
               /\ "tokens" \in DOMAIN labeled_instances
               /\ IsRowsOf(labeled_instances["tokens"].tokens, split_tokens, LabeledRows)
        /\ UnlabeledRows # {} =>
               /\ "tokens" \in DOMAIN unlabeled_instances
               /\ IsRowsOf(unlabeled_instances["tokens"].tokens, split_tokens, UnlabeledRows)
        /\ LabeledRows = {} => "tokens" \notin DOMAIN labeled_instances
        /\ UnlabeledRows = {} => "tokens" \notin DOMAIN unlabeled_instances
        /\ NumRows(labeled_instances) + NumRows(unlabeled_instances) = Len(split_tokens)
        /\ LabeledRows # {} =>
               /\ "label" \in DOMAIN labeled_instances
               /\ IsEntriesOf(labeled_instances["label"], label, LabeledRows)

\* a batch of three with two labeled rows and one unlabeled row between them
C1_Witness ==
    /\ split_pc = "returned"
    /\ Len(is_labeled) = 3 /\ is_labeled[1] # 0 /\ is_labeled[2] = 0 /\ is_labeled[3] # 0
    /\ split_tokens[1] # split_tokens[3]

SubsetShape(d, S, withLabel) ==
    IF S = {} THEN d = EmptyDict
    ELSE /\ DOMAIN d = {"tokens"} \cup (IF withLabel THEN {"label"} ELSE {})
                       \cup (IF targets # None THEN {"targets"} ELSE {})
         /\ d["tokens"].tokens.ndim = 2
         /\ Len(d["tokens"].tokens.val) = Cardinality(S)
         /\ withLabel => d["label"].ndim = 1 /\ Len(d["label"].val) = Cardinality(S)
         /\ targets # None =>
                /\ d["targets"].tokens.ndim = 2
                /\ Len(d["targets"].tokens.val) = Cardinality(S)

\* C8: a subset of n >= 1 instances has a 2-dimensional 'tokens' of n rows (and
\* the labeled one a 1-dimensional 'label' of length n), an empty subset is an
\* empty dict, 'targets' is present in a non-empty subset iff targets was
\* supplied, and the unlabeled result never holds 'label'.
C8_Shapes ==
    split_pc = "returned" =>
        /\ SubsetShape(labeled_instances, LabeledRows, TRUE)
        /\ SubsetShape(unlabeled_instances, UnlabeledRows, FALSE)
        /\ "label" \notin DOMAIN unlabeled_instances

\* a split with exactly one labeled row, at least two unlabeled rows and targets
C8_Witness ==
    /\ split_pc = "returned"
    /\ Cardinality(LabeledRows) = 1 /\ Cardinality(UnlabeledRows) >= 2
    /\ targets # None
    /\ "targets" \in DOMAIN labeled_instances

----------------------------------------------------------------------------
(* Claims about log_standard_categorical *)

\* the cross entropy H(p, u) = -sum_i p_i log(u_i) with the uniform u over K classes
CrossEntropyWithUniform(row) ==
    -SumSeq([k \in 1..Len(row) |-> row[k] * Ln(Scale \div Len(row))])

\* C6: for every one-hot p the result is H(p, u) = -sum_i p_i log(u_i) = log K,
\* a non-negative value.
C6_CrossEntropy ==
    lsc_pc = "returned" =>
        \A r \in 1..Len(p) :
            /\ cross_entropy[1][r] = CrossEntropyWithUniform(p[r])
            /\ cross_entropy[1][r] >= 0

----------------------------------------------------------------------------
(* Claims about schedule *)

\* C5 as stated: for every anneal_type and all 0 <= a <= b,
\* schedule(a) <= schedule(b).
C5_MonotoneEveryType ==
    sched_pc = "returned" => weight_a[1] <= weight_b[1]

\* C5 as amended: for every anneal_type other than "reverse_sigmoid" and all
\* 0 <= a <= b, schedule(a) <= schedule(b); for "reverse_sigmoid",
\* schedule(a) >= schedule(b).
C5_MonotoneByType ==
    sched_pc = "returned" =>
        IF anneal_type = "reverse_sigmoid"
        THEN weight_a[1] >= weight_b[1]
        ELSE weight_a[1] <= weight_b[1]

\* a sigmoid schedule has been evaluated on both sides of its midpoint and
\* has risen
C5_Witness ==
    /\ sched_pc = "returned" /\ anneal_type = "sigmoid"
    /\ batch_a < SigmoidMidpoint /\ batch_b > SigmoidMidpoint
    /\ weight_a[1] < weight_b[1]

----------------------------------------------------------------------------
(* Claims about interpolate *)

\* C4: the result has steps + 2 rows and len(start) columns, its first row is
\* start, its last row is end, and each column is evenly spaced in between.
C4_Interpolation ==
    interp_pc = "returned" =>
        LET r == interp_ret[1]
        IN /\ Len(r) = steps + 2
           /\ \A j \in 1..Len(r) : Len(r[j]) = Len(start)
           /\ \A d \in 1..Len(start) :
                  /\ RatEq(r[1][d], Rat(start[d], 1))
                  /\ RatEq(r[steps + 2][d], Rat(end[d], 1))
                  /\ \A j \in 1..(steps + 1) :
                         RatEq(RatSub(r[j + 1][d], r[j][d]),
                               Rat(end[d] - start[d], steps + 1))

\* an interpolation with interior rows between two different vectors of two
\* components has returned
C4_Witness ==
    /\ interp_pc = "returned" /\ steps >= 2 /\ Len(start) = 2
    /\ start[1] # end[1] /\ start[2] # end[2] /\ start[1] # start[2]
====
